---- MODULE Spec2Model ----
(***************************************************************************)
(* Game news scrapers (Arc Raiders: arc-raiders/check-news.js, held as     *)
(* src/unnamed/part_000; Nightreign: src/nightreign/check-news.js).        *)
(*                                                                         *)
(* A behaviour of Spec is a sequence of non-overlapping runs of ONE        *)
(* scraper against its own state file.  A run is the async IIFE at the     *)
(* end of the script: getUnpostedArticles, then one postToDiscord per      *)
(* unposted article, then the state write-back.                            *)
(*                                                                         *)
(* The Nightreign actions model getUnpostedArticles, postToDiscord and the *)
(* body of the async IIFE as those functions are written.  They do not     *)
(* cover the module initialisation of that script (lines 5-13), where      *)
(* line 7 applies `new` to the name URL that line 5 binds to a string:     *)
(* that is NRModuleInit, and a behaviour with entry = "script" runs the    *)
(* Nightreign script from its first line, while a behaviour with           *)
(* entry = "main" enters it at the async IIFE.                             *)
(***************************************************************************)
EXTENDS Integers, Sequences, FiniteSets, TLC

VARIABLES
    scraper,      \* which script the behaviour runs: "arc" or "nightreign"
    entry,        \* where a run enters the script: "script" or "main"
    env,          \* whether the webhook variable is set in this process
    error,        \* the uncaught error that ended this run, or "none"
    fileAtStart,  \* the state file as this run found it
    reads,        \* number of loads of the state file in this run
    news,         \* what the fetch of the news page gave in this run
    file,         \* the state file state.json of that script
    pc,           \* position of the current run
    state,        \* what loadState / loadLastPublished returned in this run
    articles,     \* what getLatestNewsArticles returned in this run
    newArticles,  \* what getUnpostedArticles returned in this run
    i,            \* index of the next article of the for loop of main
    attempted,    \* urls handed to postToDiscord in this run, in call order
    results,      \* outcome of each of those calls
    wrote,        \* which writes of the state file this run made
    sentBefore,   \* history: urls that were in the unposted set of an earlier run
    baseline,     \* history: urls of the first non-empty cold-start batch
    observed,     \* history: urls of every article a run has scraped
    confirmedMax, \* history: greatest published value among the articles whose
                  \* webhook post returned 2xx; 0 while there is none
    fetchIn,      \* fetchWithRetry taken alone: its arguments
    fetchOut,     \* fetchWithRetry taken alone: its result and its trace
    postIn,       \* postToDiscord taken alone: the answers of the webhook
    postOut       \* postToDiscord taken alone: its result and its trace

procVars == <<entry, env, error, fileAtStart, reads, news>>

vars == <<scraper, file, pc, state, articles, newArticles, i, attempted,
          results, wrote, sentBefore, baseline, observed, confirmedMax,
          fetchIn, fetchOut, postIn, postOut, procVars>>

runVars == <<scraper, file, pc, state, articles, newArticles, i,
             attempted, results, wrote, sentBefore, baseline, observed,
             confirmedMax, procVars>>

(***************************************************************************)
(* Bounds of the model.                                                    *)
(***************************************************************************)
MaxLen == 3
MaxAttempts == 3

(***************************************************************************)
(* Program constants.                                                      *)
(***************************************************************************)
FetchAttempts == 3
BaseDelay == 2000
DefaultRetries == 3

\* the seconds waited when Number(Retry-After) is falsy
DefaultRetryAfter == 5

\* the largest Retry-After, in seconds, the webhook sends
MaxRetryAfter == 2

(***************************************************************************)
(* The articles the news page can show.  An article keeps its url and its  *)
(* published value from run to run; u2 and u3 share a date.                *)
(***************************************************************************)
Urls == {"u1", "u2", "u3", "u4"}

PublishedOf(u) ==
    CASE u = "u1" -> 1
      [] u = "u2" -> 2
      [] u = "u3" -> 2
      [] u = "u4" -> 3

Article(u) == [url |-> u, published |-> PublishedOf(u)]

Range(s) == {s[k] : k \in DOMAIN s}

UrlLists ==
    {s \in UNION {[1..n -> Urls] : n \in 0..MaxLen} :
        \A a, b \in DOMAIN s : a # b => s[a] # s[b]}

ArticleLists == {[k \in DOMAIN s |-> Article(s[k])] : s \in UrlLists}

UrlsOf(arts) == {arts[k].url : k \in DOMAIN arts}

(***************************************************************************)
(* Date values.  new Date(Math.max(...[])) is new Date(-Infinity), an      *)
(* Invalid Date, and toISOString() of an Invalid Date throws RangeError.   *)
(***************************************************************************)
InvalidDate == [valid |-> FALSE, time |-> 0]

DateOf(t) == [valid |-> TRUE, time |-> t]

SetMax(S) == CHOOSE m \in S : \A x \in S : x <= m

OldestDate(arts) ==
    IF arts = <<>> THEN InvalidDate
    ELSE DateOf(CHOOSE m \in {arts[k].published : k \in DOMAIN arts} :
                    \A x \in {arts[k].published : k \in DOMAIN arts} : m <= x)

NewestDateOrEpoch(arts) ==
    IF arts = <<>> THEN DateOf(0)
    ELSE DateOf(SetMax({arts[k].published : k \in DOMAIN arts}))

\* new Date(Math.max(...arts.map((a) => a.published)))
NewestDate(arts) ==
    IF arts = <<>> THEN InvalidDate
    ELSE DateOf(SetMax({arts[k].published : k \in DOMAIN arts}))

(***************************************************************************)
(* State file.                                                             *)
(***************************************************************************)
NoFile == [exists |-> FALSE]

NoState == [present |-> FALSE]

\* a last_published that is falsy or that new Date() parses to an Invalid
\* Date: every value that is not the text of a date
NotADate == -1

\* a posted_urls for which Array.isArray is false
NotAnArray == <<"not an array">>

\* a state file that exists and is not JSON has a text and no json
Unparseable == [exists |-> TRUE, text |-> "not json"]

loadStateStrict(f) ==
    IF ~f.exists \/ "json" \notin DOMAIN f THEN NoState
    ELSE LET raw == f.json IN
         IF \/ "last_published" \notin DOMAIN raw
            \/ raw.last_published = NotADate
            \/ "posted_urls" \notin DOMAIN raw
            \/ raw.posted_urls = NotAnArray
         THEN NoState
         ELSE [present |-> TRUE,
               lastPublished |-> raw.last_published,
               postedUrls |-> raw.posted_urls]

\* Arc Raiders loadState.  A file that saveState wrote parses as JSON and
\* its last_published is the ISO string of a valid date; JSON.parse throws
\* on any other text and the catch returns null.
loadState(f) ==
    IF ~f.exists THEN NoState
    ELSE IF "json" \notin DOMAIN f THEN NoState
    ELSE LET raw == f.json IN
         IF \/ "last_published" \notin DOMAIN raw
            \/ raw.last_published = NotADate
         THEN NoState
         ELSE [present |-> TRUE,
               lastPublished |-> raw.last_published,
               postedUrls |-> IF /\ "posted_urls" \in DOMAIN raw
                                 /\ raw.posted_urls # NotAnArray
                              THEN raw.posted_urls ELSE <<>>]

\* Arc Raiders saveState; the caller has checked date.valid (else it throws)
saveState(date, postedUrls) ==
    [exists |-> TRUE,
     json |-> [last_published |-> date.time, posted_urls |-> postedUrls]]

\* Nightreign loadLastPublished
loadLastPublished(f) ==
    IF ~f.exists THEN NoState
    ELSE IF "json" \notin DOMAIN f THEN NoState
    ELSE LET raw == f.json IN
         IF \/ "last_published" \notin DOMAIN raw
            \/ raw.last_published = NotADate
         THEN NoState
         ELSE [present |-> TRUE, lastPublished |-> raw.last_published]

\* Nightreign saveLastPublished
saveLastPublished(date) ==
    [exists |-> TRUE, json |-> [last_published |-> date.time]]

(***************************************************************************)
(* fetchWithRetry.  script[k] is what the k-th call of fetch does: "ok" (a *)
(* 2xx response), "http" (another response) or "neterr" (fetch rejects).   *)
(* The result is the number of the attempt whose response is returned      *)
(* (0 stands for null) and the trace of fetch calls and waits.             *)
(***************************************************************************)
FetchOutcomes == {"ok", "http", "neterr"}

RECURSIVE FetchLoopOneMore(_, _, _, _)
FetchLoopOneMore(script, maxAttempts, attempt, log) ==
    IF attempt > maxAttempts + 1 \/ attempt > Len(script)
    THEN [res |-> 0, log |-> log]
    ELSE LET called == Append(log, [ev |-> "fetch", n |-> attempt]) IN
         IF script[attempt] = "ok"
         THEN [res |-> attempt, log |-> called]
         ELSE FetchLoopOneMore(script, maxAttempts, attempt + 1,
                  IF attempt < maxAttempts
                  THEN Append(called, [ev |-> "wait", n |-> BaseDelay * attempt])
                  ELSE called)

RECURSIVE FetchLoop(_, _, _, _)
FetchLoop(script, maxAttempts, attempt, log) ==
    IF attempt > maxAttempts
    THEN [res |-> 0, log |-> log]
    ELSE LET called == Append(log, [ev |-> "fetch", n |-> attempt]) IN
         IF script[attempt] = "ok"
         THEN [res |-> attempt, log |-> called]
         ELSE FetchLoop(script, maxAttempts, attempt + 1,
                  IF attempt < maxAttempts
                  THEN Append(called, [ev |-> "wait", n |-> BaseDelay * attempt])
                  ELSE called)

fetchWithRetry(script, maxAttempts) == FetchLoop(script, maxAttempts, 1, <<>>)

\* what the server does until fetchWithRetry stops asking: every call but the
\* last fails, and a script shorter than n ends with the 2xx response
FetchScripts(n) ==
    {s \in UNION {[1..k -> FetchOutcomes] : k \in 0..n} :
        /\ \A k \in DOMAIN s : k < Len(s) => s[k] # "ok"
        /\ Len(s) < n => (s # <<>> /\ s[Len(s)] = "ok")}

\* what getLatestNewsArticles can get from fetchWithRetry(NEWS_URL, ..., 3):
\* TRUE for a response, FALSE for null
NewsFetched ==
    {fetchWithRetry(s, FetchAttempts).res # 0 : s \in FetchScripts(FetchAttempts)}

(***************************************************************************)
(* Delta logic.                                                            *)
(***************************************************************************)
RECURSIVE InsertByPublished(_, _)
InsertByPublished(a, sorted) ==
    IF sorted = <<>> THEN <<a>>
    ELSE IF Head(sorted).published <= a.published
         THEN <<Head(sorted)>> \o InsertByPublished(a, Tail(sorted))
         ELSE <<a>> \o sorted

RECURSIVE SortInto(_, _)
SortInto(arts, acc) ==
    IF arts = <<>> THEN acc
    ELSE SortInto(Tail(arts), InsertByPublished(Head(arts), acc))

KeepSourceOrder(arts) == arts

\* Array.prototype.sort((a, b) => a.published - b.published): stable, ascending
SortByPublished(arts) == SortInto(arts, <<>>)

IsUnpostedStrict(a, st) == a.published > st.lastPublished

\* the test of the for loop of Arc Raiders getUnpostedArticles
IsUnposted(a, st) ==
    \/ a.published > st.lastPublished
    \/ /\ a.published = st.lastPublished
       /\ a.url \notin Range(st.postedUrls)

IsNewerAny(a, st) == TRUE

\* the test of the filter of Nightreign getUnpostedArticles
IsNewer(a, st) == a.published > st.lastPublished

\* the urls of main's urlsAtNewestTimestamp
UrlsAt(arts, date) ==
    LET at == SelectSeq(arts, LAMBDA a : a.published = date.time)
    IN  [k \in DOMAIN at |-> at[k].url]

(***************************************************************************)
(* postToDiscord.  script[k] is the response to the k-th webhook call:     *)
(* "ok" (2xx), "429", "500" (any other status) or "neterr" (fetch          *)
(* rejects).  The result says how the call ended.                          *)
(***************************************************************************)
Responses == {"ok", "429", "500", "neterr"}

\* what the webhook answers until postToDiscord stops asking: every answer
\* but the last is 429, and only the answer to the last allowed call may be
\* a final 429
PostScripts ==
    {s \in UNION {[1..k -> Responses] : k \in 1..(DefaultRetries + 1)} :
        /\ \A k \in DOMAIN s : k < Len(s) => s[k] = "429"
        /\ Len(s) <= DefaultRetries => s[Len(s)] # "429"}

RECURSIVE postToDiscord(_, _, _)
postToDiscord(script, retries, n) ==
    LET res == script[n] IN
    IF res = "neterr" THEN "network"
    ELSE IF res = "429" /\ retries > 0
         THEN postToDiscord(script, retries - 1, n + 1)
         ELSE IF res = "429" THEN "ratelimit"
              ELSE IF res # "ok" THEN "http"
                   ELSE "ok"

\* Nightreign postToDiscord: `retries` is not declared, so the test of a 429
\* response throws ReferenceError; every other response is handled as above
postToDiscordNR(script) ==
    LET res == script[1] IN
    IF res = "neterr" THEN "network"
    ELSE IF res = "429" THEN "ratelimit"
         ELSE IF res # "ok" THEN "http"
              ELSE "ok"

\* the Retry-After header of a 429 answer: absent, a text that is not a
\* number, or a number of seconds
Headers ==
    {[present |-> FALSE, numeric |-> FALSE, seconds |-> 0],
     [present |-> TRUE, numeric |-> FALSE, seconds |-> 0]}
    \cup {[present |-> TRUE, numeric |-> TRUE, seconds |-> v] :
              v \in 0..MaxRetryAfter}

NoHeader == [present |-> FALSE, numeric |-> FALSE, seconds |-> 0]

\* the answers of the webhook to one call, with the header of a 429
Answers ==
    {[status |-> r, header |-> NoHeader] : r \in Responses \ {"429"}}
    \cup {[status |-> "429", header |-> h] : h \in Headers}

\* Number(res.headers.get('Retry-After')): get gives null for an absent
\* header and Number(null) is 0; Number of a non-numeric text is NaN
NumberOf(h) ==
    [nan |-> h.present /\ ~h.numeric,
     value |-> IF h.present /\ h.numeric THEN h.seconds ELSE 0]

\* Number(...) || 5: NaN and 0 are falsy
retryAfter(h) ==
    LET num == NumberOf(h) IN
    IF num.nan \/ num.value = 0 THEN DefaultRetryAfter ELSE num.value

StatusesOf(script) == [k \in DOMAIN script |-> script[k].status]

\* postToDiscord with its trace: the webhook calls and the waits in seconds
RECURSIVE PostLoop(_, _, _, _)
PostLoop(script, retries, n, log) ==
    LET res == script[n]
        called == Append(log, [ev |-> "post", n |-> n])
    IN  IF res.status = "429" /\ retries > 0
        THEN PostLoop(script, retries - 1, n + 1,
                      Append(called,
                             [ev |-> "wait", n |-> retryAfter(res.header)]))
        ELSE [result |-> postToDiscord(StatusesOf(script), retries, n),
              log |-> called]

\* Nightreign postToDiscord with its trace: one webhook call
PostOnceNR(script) ==
    [result |-> postToDiscordNR(StatusesOf(script)),
     log |-> <<[ev |-> "post", n |-> 1]>>]

\* how a call postToDiscord(article) of main can end
PostResults == {postToDiscord(s, DefaultRetries, 1) : s \in PostScripts}

\* how a call postToDiscord(article) of the Nightreign main can end
PostResultsNR == {postToDiscordNR(s) : s \in PostScripts}

NextIndexAbort(r, idx, n) == IF r = "ok" THEN idx + 1 ELSE n + 1

\* the try/catch of the for loop of main: an error thrown by postToDiscord is
\* logged and the loop goes on with the next of the n articles
NextIndex(r, idx, n) == idx + 1

(***************************************************************************)
(* The news page a run sees.                                               *)
(***************************************************************************)
NoSection == [section |-> FALSE, cards |-> <<>>]

Pages == {NoSection} \cup {[section |-> TRUE, cards |-> l] : l \in ArticleLists}

\* the pages a run can read: none is read when the fetch gave no response
PagesRead(fetched) == IF fetched THEN Pages ELSE {NoSection}

SectionMissingIgnored(fetched, page) == FALSE

\* getLatestNewsArticles: if (!section.length) throw new Error(...)
SectionMissing(fetched, page) == fetched /\ ~page.section

(***************************************************************************)
(* Initial state: no run yet, no state file.                               *)
(***************************************************************************)
NoFetch == [script |-> <<>>, maxAttempts |-> 0]

NoPost == [script |-> <<>>]

NoPostOut == [done |-> FALSE, result |-> "none", log |-> <<>>]

NoFetchOut == [done |-> FALSE, res |-> 0, log |-> <<>>]

\* where a run starts: at the first line of the script, or at the async IIFE
StartPc(e) == IF e = "script" THEN "idle" ELSE "main"

InitMemory ==
    /\ state = NoState
    /\ articles = <<>>
    /\ newArticles = <<>>
    /\ i = 1
    /\ attempted = <<>>
    /\ results = <<>>
    /\ wrote = <<>>
    /\ sentBefore = {}
    /\ baseline = {}
    /\ observed = {}
    /\ confirmedMax = 0

InitProc ==
    /\ pc = StartPc(entry)
    /\ env = TRUE
    /\ error = "none"
    /\ fileAtStart = file
    /\ reads = 0
    /\ news = "none"

InitRun ==
    /\ file = NoFile
    /\ InitMemory

\* the two scripts from their first line, and the Nightreign script from main
Entries == {<<"arc", "script">>, <<"nightreign", "script">>,
            <<"nightreign", "main">>}

Init ==
    /\ \E e \in Entries : scraper = e[1] /\ entry = e[2]
    /\ InitRun
    /\ InitProc
    /\ fetchIn = NoFetch
    /\ fetchOut = NoFetchOut
    /\ postIn = NoPost
    /\ postOut = NoPostOut

\* module initialisation of arc-raiders/check-news.js: the error it throws
ModuleInit(webhook) == IF ~webhook THEN "config" ELSE "none"

\* module initialisation of nightreign/check-news.js: line 7 throws before
\* the test of WEBHOOK on line 11 is reached
ModuleInitNR(webhook) == "TypeError"

\* the process starts and the script runs down to the async IIFE
Boot(webhook, err) ==
    /\ pc = "idle"
    /\ env' = webhook
    /\ error' = err
    /\ pc' = IF err = "none" THEN "main" ELSE "crashed"
    /\ UNCHANGED <<scraper, entry, file, fileAtStart, reads, news, state,
                   articles, newArticles, i, attempted, results, wrote,
                   sentBefore, baseline, observed, confirmedMax, fetchIn,
                   fetchOut, postIn, postOut>>

ArcModuleInit(webhook) ==
    /\ scraper = "arc"
    /\ Boot(webhook, ModuleInit(webhook))

NRModuleInit(webhook) ==
    /\ scraper = "nightreign"
    /\ Boot(webhook, ModuleInitNR(webhook))

CanStart == pc = "main"

\* the run ends with an uncaught error before getUnpostedArticles returns
Crash(st, arts, err) ==
    /\ pc' = "crashed"
    /\ error' = err
    /\ state' = st
    /\ articles' = arts
    /\ newArticles' = <<>>
    /\ wrote' = <<>>
    /\ UNCHANGED <<file, baseline>>

ColdStartPosting(st, arts, saved) ==
    IF ~NewestDate(arts).valid
    THEN Crash(st, arts, "RangeError")
    ELSE /\ file' = saved
         /\ pc' = "posting"
         /\ error' = "none"
         /\ state' = st
         /\ articles' = arts
         /\ newArticles' = SortByPublished(arts)
         /\ wrote' = <<"cold">>
         /\ baseline' = IF baseline = {} THEN UrlsOf(arts) ELSE baseline

\* the cold-start branch of getUnpostedArticles; save is the script's save
ColdStart(st, arts, saved) ==
    IF ~NewestDate(arts).valid
    THEN Crash(st, arts, "RangeError")
    ELSE /\ file' = saved
         /\ pc' = "posting"
         /\ error' = "none"
         /\ state' = st
         /\ articles' = arts
         /\ newArticles' = <<>>
         /\ wrote' = <<"cold">>
         /\ baseline' = IF baseline = {} THEN UrlsOf(arts) ELSE baseline

Detected(st, arts, unposted) ==
    /\ pc' = "posting"
    /\ error' = "none"
    /\ state' = st
    /\ articles' = arts
    /\ newArticles' = unposted
    /\ wrote' = <<>>
    /\ UNCHANGED <<file, baseline>>

(***************************************************************************)
(* Arc Raiders: start of a run up to the return of getUnpostedArticles.    *)
(***************************************************************************)
ArcGetUnpostedArticles(fetched, page) ==
    /\ scraper = "arc"
    /\ CanStart
    /\ i' = 1
    /\ attempted' = <<>>
    /\ results' = <<>>
    /\ reads' = reads + 1
    /\ news' = IF ~fetched THEN "null"
               ELSE IF ~page.section THEN "nosection" ELSE "parsed"
    /\ LET st == loadState(file)
           arts == IF ~fetched THEN <<>> ELSE page.cards
       IN  /\ observed' = observed \cup UrlsOf(arts)
           /\ IF SectionMissing(fetched, page)
              THEN Crash(st, <<>>, "section")
              ELSE IF ~st.present
                   THEN ColdStart(st, arts, saveState(NewestDate(arts), <<>>))
                   ELSE Detected(st, arts,
                            SortByPublished(
                                SelectSeq(arts, LAMBDA a : IsUnposted(a, st))))
    /\ UNCHANGED <<scraper, entry, env, fileAtStart, sentBefore, confirmedMax,
                   fetchIn, fetchOut, postIn, postOut>>

\* one iteration of the for loop of main
ArcPost(r) ==
    /\ scraper = "arc"
    /\ pc = "posting"
    /\ i <= Len(newArticles)
    /\ attempted' = Append(attempted, newArticles[i].url)
    /\ results' = Append(results, r)
    /\ confirmedMax' = IF r = "ok" /\ newArticles[i].published > confirmedMax
                       THEN newArticles[i].published
                       ELSE confirmedMax
    /\ i' = NextIndex(r, i, Len(newArticles))
    /\ UNCHANGED <<scraper, file, pc, state, articles, newArticles, wrote,
                   sentBefore, baseline, observed, fetchIn, fetchOut, postIn, postOut, procVars>>

ArcFinishIfPosted ==
    /\ scraper = "arc"
    /\ pc = "posting"
    /\ i > Len(newArticles)
    /\ pc' = "done"
    /\ IF \E k \in DOMAIN results : results[k] = "ok"
       THEN /\ file' = saveState(NewestDate(newArticles),
                                 UrlsAt(newArticles, NewestDate(newArticles)))
            /\ wrote' = Append(wrote, "end")
       ELSE UNCHANGED <<file, wrote>>
    /\ sentBefore' = sentBefore \cup UrlsOf(newArticles)
    /\ UNCHANGED <<scraper, state, articles, newArticles, i, attempted,
                   results, baseline, observed, confirmedMax, fetchIn, fetchOut,
                   postIn, postOut, procVars>>

\* the state write-back after the loop
ArcFinish ==
    /\ scraper = "arc"
    /\ pc = "posting"
    /\ i > Len(newArticles)
    /\ pc' = "done"
    /\ IF newArticles # <<>>
       THEN /\ file' = saveState(NewestDate(newArticles),
                                 UrlsAt(newArticles, NewestDate(newArticles)))
            /\ wrote' = Append(wrote, "end")
       ELSE UNCHANGED <<file, wrote>>
    /\ sentBefore' = sentBefore \cup UrlsOf(newArticles)
    /\ UNCHANGED <<scraper, state, articles, newArticles, i, attempted,
                   results, baseline, observed, confirmedMax, fetchIn, fetchOut, postIn, postOut,
                   procVars>>

(***************************************************************************)
(* Nightreign.  fetch(URL) is called once: a rejected fetch, a non-2xx     *)
(* response and a page without the news section all throw.                 *)
(***************************************************************************)
\* what getLatestNewsArticles gets from its one fetch(URL): TRUE for a 2xx
\* response, FALSE otherwise
NewsFetchedNR == {o = "ok" : o \in FetchOutcomes}

NRGetUnpostedArticles(fetched, page) ==
    /\ scraper = "nightreign"
    /\ CanStart
    /\ i' = 1
    /\ attempted' = <<>>
    /\ results' = <<>>
    /\ reads' = reads + 1
    /\ news' = IF ~fetched THEN "null"
               ELSE IF ~page.section THEN "nosection" ELSE "parsed"
    /\ LET st == loadLastPublished(file)
           arts == IF fetched THEN page.cards ELSE <<>>
       IN  /\ observed' = observed \cup UrlsOf(arts)
           /\ IF ~fetched
              THEN Crash(st, <<>>, "HTTP")
              ELSE IF SectionMissing(fetched, page)
              THEN Crash(st, <<>>, "section")
              ELSE IF ~st.present
                   THEN ColdStart(st, arts, saveLastPublished(NewestDate(arts)))
                   ELSE Detected(st, arts,
                            SortByPublished(
                                SelectSeq(arts, LAMBDA a : IsNewer(a, st))))
    /\ UNCHANGED <<scraper, entry, env, fileAtStart, sentBefore, confirmedMax,
                   fetchIn, fetchOut, postIn, postOut>>

NRPost(r) ==
    /\ scraper = "nightreign"
    /\ pc = "posting"
    /\ i <= Len(newArticles)
    /\ attempted' = Append(attempted, newArticles[i].url)
    /\ results' = Append(results, r)
    /\ confirmedMax' = IF r = "ok" /\ newArticles[i].published > confirmedMax
                       THEN newArticles[i].published
                       ELSE confirmedMax
    /\ i' = NextIndex(r, i, Len(newArticles))
    /\ UNCHANGED <<scraper, file, pc, state, articles, newArticles, wrote,
                   sentBefore, baseline, observed, fetchIn, fetchOut, postIn, postOut, procVars>>

NRFinish ==
    /\ scraper = "nightreign"
    /\ pc = "posting"
    /\ i > Len(newArticles)
    /\ pc' = "done"
    /\ IF newArticles # <<>>
       THEN /\ file' = saveLastPublished(NewestDate(newArticles))
            /\ wrote' = Append(wrote, "end")
       ELSE UNCHANGED <<file, wrote>>
    /\ sentBefore' = sentBefore \cup UrlsOf(newArticles)
    /\ UNCHANGED <<scraper, state, articles, newArticles, i, attempted,
                   results, baseline, observed, confirmedMax, fetchIn, fetchOut, postIn, postOut,
                   procVars>>

\* the process of the run ends; what it held in memory is gone
Exit ==
    /\ pc \in {"done", "crashed"}
    /\ pc' = StartPc(entry)
    /\ env' = TRUE
    /\ error' = "none"
    /\ fileAtStart' = file
    /\ reads' = 0
    /\ news' = "none"
    /\ state' = NoState
    /\ articles' = <<>>
    /\ newArticles' = <<>>
    /\ i' = 1
    /\ attempted' = <<>>
    /\ results' = <<>>
    /\ wrote' = <<>>
    /\ UNCHANGED <<scraper, entry, file, sentBefore, baseline, observed,
                   confirmedMax, fetchIn, fetchOut, postIn, postOut>>

Next ==
    \/ \E webhook \in BOOLEAN : ArcModuleInit(webhook)
    \/ \E webhook \in BOOLEAN : NRModuleInit(webhook)
    \/ \E fetched \in NewsFetched : \E page \in PagesRead(fetched) :
           ArcGetUnpostedArticles(fetched, page)
    \/ \E r \in PostResults : ArcPost(r)
    \/ ArcFinish
    \/ \E fetched \in NewsFetchedNR : \E page \in PagesRead(fetched) :
           NRGetUnpostedArticles(fetched, page)
    \/ \E r \in PostResultsNR : NRPost(r)
    \/ NRFinish
    \/ Exit

Spec == Init /\ [][Next]_vars

(***************************************************************************)
(* fetchWithRetry taken alone: the arguments are drawn, the call is made.  *)
(***************************************************************************)
InitFetch ==
    /\ scraper = "arc"
    /\ entry = "script"
    /\ InitRun
    /\ InitProc
    /\ fetchIn \in {[script |-> s, maxAttempts |-> m] :
                      s \in [1..MaxAttempts -> FetchOutcomes],
                      m \in 0..MaxAttempts}
    /\ fetchOut = NoFetchOut
    /\ postIn = NoPost
    /\ postOut = NoPostOut

CallFetchWithRetry ==
    /\ ~fetchOut.done
    /\ LET r == fetchWithRetry(fetchIn.script, fetchIn.maxAttempts) IN
       fetchOut' = [done |-> TRUE, res |-> r.res, log |-> r.log]
    /\ UNCHANGED <<fetchIn, postIn, postOut, runVars>>

NextFetch == CallFetchWithRetry

SpecFetch == InitFetch /\ [][NextFetch]_vars

(***************************************************************************)
(* One Arc Raiders run over a state file that anything may have written:   *)
(* state.json is a file of the repository, committed and edited outside    *)
(* the script.                                                             *)
(***************************************************************************)
\* the dates a state file holds
Times == {PublishedOf(u) : u \in Urls}

\* the records a JSON state file holds: with or without each key, with a
\* last_published that is a date or not, with a posted_urls that is an
\* array or not
StateRecords ==
    {[posted_urls |-> <<"u1">>],
     [last_published |-> NotADate, posted_urls |-> <<"u1">>]}
    \cup {[last_published |-> t] : t \in Times}
    \cup {[last_published |-> t, posted_urls |-> p] :
              t \in Times, p \in {NotAnArray, <<>>, <<"u2">>}}

StateFiles ==
    {NoFile, Unparseable}
    \cup {[exists |-> TRUE, json |-> r] : r \in StateRecords}

InitLoad ==
    /\ scraper = "arc"
    /\ entry = "script"
    /\ file \in StateFiles
    /\ InitMemory
    /\ InitProc
    /\ fetchIn = NoFetch
    /\ fetchOut = NoFetchOut
    /\ postIn = NoPost
    /\ postOut = NoPostOut

NextLoad ==
    \/ \E webhook \in BOOLEAN : ArcModuleInit(webhook)
    \/ \E fetched \in NewsFetched : \E page \in PagesRead(fetched) :
           ArcGetUnpostedArticles(fetched, page)
    \/ \E r \in PostResults : ArcPost(r)
    \/ ArcFinish

SpecLoad == InitLoad /\ [][NextLoad]_vars

(***************************************************************************)
(* postToDiscord taken alone, as main calls it: the answers of the webhook *)
(* are drawn, one more than the calls the default retries allow, and the   *)
(* call is made by the function of the script the behaviour runs.          *)
(***************************************************************************)
PostCalls == DefaultRetries + 2

InitPost ==
    /\ \E e \in {<<"arc", "script">>, <<"nightreign", "main">>} :
           scraper = e[1] /\ entry = e[2]
    /\ InitRun
    /\ InitProc
    /\ fetchIn = NoFetch
    /\ fetchOut = NoFetchOut
    /\ postIn \in {[script |-> sc] : sc \in [1..PostCalls -> Answers]}
    /\ postOut = NoPostOut

CallPostToDiscord ==
    /\ ~postOut.done
    /\ LET r == IF scraper = "arc"
                THEN PostLoop(postIn.script, DefaultRetries, 1, <<>>)
                ELSE PostOnceNR(postIn.script)
       IN  postOut' = [done |-> TRUE, result |-> r.result, log |-> r.log]
    /\ UNCHANGED <<fetchIn, fetchOut, postIn, runVars>>

NextPost == CallPostToDiscord

SpecPost == InitPost /\ [][NextPost]_vars

(***************************************************************************)
(* Helpers of the properties.                                              *)
(***************************************************************************)
IndexIn(arts, u) == CHOOSE k \in DOMAIN arts : arts[k].url = u

Count(log, ev) == Cardinality({k \in DOMAIN log : log[k].ev = ev})

Returned == pc \in {"posting", "done"}

\* the persisted record accounts for article a
Covered(a) ==
    /\ file.exists
    /\ \/ a.published < file.json.last_published
       \/ /\ a.published = file.json.last_published
          /\ a.url \in Range(file.json.posted_urls)

(***************************************************************************)
(* C1.  Across the runs of the Arc Raiders scraper no article url is in    *)
(* the unposted set of more than one run: a url in the unposted set of the *)
(* current run was in the unposted set of no earlier run.                  *)
(***************************************************************************)
C1_NoUrlUnpostedTwice ==
    (scraper = "arc" /\ pc = "posting") =>
        UrlsOf(newArticles) \cap sentBefore = {}

(***************************************************************************)
(* C2.  Monotonicity: after an Arc Raiders run that wrote the state file   *)
(* (cold start or non-empty unposted set), the delta of the same article   *)
(* list against the persisted state is empty.                              *)
(***************************************************************************)
C2_SecondCallEmpty ==
    (scraper = "arc" /\ pc = "done" /\ wrote # <<>>) =>
        LET st == loadState(file) IN
        /\ st.present
        /\ SelectSeq(articles, LAMBDA a : IsUnposted(a, st)) = <<>>

(***************************************************************************)
(* C3.  No article of the cold-start batch of the Arc Raiders scraper is   *)
(* in the unposted set of a later run.                                     *)
(***************************************************************************)
C3_BaselineNeverPosted ==
    (scraper = "arc" /\ pc = "posting") =>
        UrlsOf(newArticles) \cap baseline = {}

(***************************************************************************)
(* C4.  Cold start, in both scrapers: with no prior state and a non-empty  *)
(* article list getUnpostedArticles returns the empty sequence, the run    *)
(* calls the webhook for no article, and the persisted last_published is   *)
(* the greatest published value of the list.                               *)
(***************************************************************************)
C4_ColdStart ==
    (Returned /\ ~state.present /\ articles # <<>>) =>
        /\ newArticles = <<>>
        /\ attempted = <<>>
        /\ results = <<>>
        /\ file.exists
        /\ \A k \in DOMAIN articles :
               articles[k].published <= file.json.last_published
        /\ \E k \in DOMAIN articles :
               articles[k].published = file.json.last_published

C4_Witness ==
    /\ scraper = "arc"
    /\ pc = "done"
    /\ ~state.present
    /\ Len(articles) = 3
    /\ articles[1].published > articles[2].published
    /\ wrote = <<"cold">>

(***************************************************************************)
(* C5.  Whenever the Arc Raiders state file exists, posted_urls holds      *)
(* exactly the urls of the articles observed so far whose published value  *)
(* equals last_published; after a cold start over articles dated 1, 2, 2   *)
(* it holds both urls dated 2.                                             *)
(***************************************************************************)
C5_PostedUrlsExact ==
    (scraper = "arc" /\ file.exists) =>
        Range(file.json.posted_urls) =
            {u \in observed : PublishedOf(u) = file.json.last_published}

(***************************************************************************)
(* C6.  In every state persisted at the end of an Arc Raiders run that was  *)
(* not a cold start, last_published is the greatest published value among  *)
(* the articles whose webhook post was confirmed successful.               *)
(***************************************************************************)
C6_AdvancesOnlyOnSuccess ==
    (scraper = "arc" /\ pc = "done" /\ "end" \in Range(wrote)) =>
        /\ file.json.last_published = confirmedMax

(***************************************************************************)
(* C7.  Tie-break: with an existing state Arc Raiders getUnpostedArticles  *)
(* returns exactly the articles published after lastPublished, or at       *)
(* lastPublished with a url not in postedUrls, each once; for the state    *)
(* {2, [u2]} and the source [u2@2, u3@2, u4@3] it returns [u3, u4].        *)
(***************************************************************************)
C7_TieBreak ==
    (scraper = "arc" /\ Returned /\ state.present) =>
        /\ UrlsOf(newArticles) =
               {articles[k].url : k \in
                   {j \in DOMAIN articles :
                       \/ articles[j].published > state.lastPublished
                       \/ /\ articles[j].published = state.lastPublished
                          /\ \A p \in DOMAIN state.postedUrls :
                                 state.postedUrls[p] # articles[j].url}}
        /\ Range(newArticles) \subseteq Range(articles)
        /\ Cardinality(UrlsOf(newArticles)) = Len(newArticles)
        /\ (/\ state.lastPublished = 2
            /\ state.postedUrls = <<"u2">>
            /\ articles = <<Article("u2"), Article("u3"), Article("u4")>>)
               => newArticles = <<Article("u3"), Article("u4")>>

C7_Witness ==
    /\ scraper = "arc"
    /\ pc = "posting"
    /\ state.present
    /\ state.lastPublished = 2
    /\ state.postedUrls = <<"u2">>
    /\ articles = <<Article("u2"), Article("u3"), Article("u4")>>
    /\ newArticles = <<Article("u3"), Article("u4")>>

(***************************************************************************)
(* C8.  Ordering, in both scrapers: the unposted sequence is ascending by  *)
(* published, articles of equal published keep their source order, and the *)
(* webhook posts of the run are made in that order, one per article.       *)
(***************************************************************************)
C8_Ordering ==
    Returned =>
        /\ \A a, b \in DOMAIN newArticles :
               a < b => newArticles[a].published <= newArticles[b].published
        /\ \A a, b \in DOMAIN newArticles :
               (a < b /\ newArticles[a].published = newArticles[b].published)
                   => IndexIn(articles, newArticles[a].url)
                          < IndexIn(articles, newArticles[b].url)
        /\ Len(attempted) <= Len(newArticles)
        /\ \A k \in DOMAIN attempted : attempted[k] = newArticles[k].url
        /\ pc = "done" => Len(attempted) = Len(newArticles)

C8_Witness ==
    /\ pc = "done"
    /\ scraper = "arc"
    /\ articles = <<Article("u4"), Article("u3"), Article("u2")>>
    /\ attempted = <<"u3", "u2", "u4">>

(***************************************************************************)
(* C9.  Isolation in an Arc Raiders run: at the end of the run every       *)
(* article of the unposted set has had its webhook attempt, in order,      *)
(* whatever the outcomes of the other attempts, and every article of the   *)
(* set (the successfully posted ones included) is covered by the persisted *)
(* state.                                                                  *)
(***************************************************************************)
C9_Isolation ==
    (scraper = "arc" /\ pc = "done") =>
        /\ Len(attempted) = Len(newArticles)
        /\ Len(results) = Len(newArticles)
        /\ \A k \in DOMAIN newArticles :
               /\ attempted[k] = newArticles[k].url
               /\ results[k] = "ok" => Covered(newArticles[k])

C9_Witness ==
    /\ scraper = "arc"
    /\ pc = "done"
    /\ Len(newArticles) = 3
    /\ results[1] = "ratelimit"
    /\ results[2] = "ok"
    /\ results[3] = "network"
    /\ Covered(newArticles[2])

(***************************************************************************)
(* C10.  Retry bound of fetchWithRetry: when every one of the maxAttempts  *)
(* attempts fails it makes exactly maxAttempts fetch calls and returns     *)
(* null; when the first success is attempt k it makes exactly k calls and  *)
(* returns that response; it waits between two attempts only, never after  *)
(* the last one.                                                           *)
(***************************************************************************)
C10_RetryBound ==
    fetchOut.done =>
        LET n == fetchIn.maxAttempts
            good == {k \in 1..n : fetchIn.script[k] = "ok"}
            calls == Count(fetchOut.log, "fetch")
            waits == Count(fetchOut.log, "wait")
            log == fetchOut.log
        IN  /\ good = {} => (fetchOut.res = 0 /\ calls = n)
            /\ good # {} =>
                   /\ fetchOut.res = CHOOSE k \in good : \A j \in good : k <= j
                   /\ calls = fetchOut.res
            /\ waits = IF calls = 0 THEN 0 ELSE calls - 1
            /\ Len(log) = calls + waits
            /\ \A k \in DOMAIN log :
                   log[k].ev = (IF k % 2 = 1 THEN "fetch" ELSE "wait")
            /\ \A k \in DOMAIN log :
                   log[k].ev = "fetch" => log[k].n = (k + 1) \div 2

C10_Witness ==
    /\ fetchOut.done
    /\ fetchIn.maxAttempts = 3
    /\ fetchIn.script = <<"neterr", "http", "neterr">>
    /\ fetchOut.res = 0
    /\ Count(fetchOut.log, "fetch") = 3

(***************************************************************************)
(* C11.  A run whose fetch of the news page gave no response leaves no     *)
(* trace, in both scrapers and with a prior state or none: it makes no     *)
(* webhook call, it writes nothing, and the state file is as the run found *)
(* it.                                                                     *)
(***************************************************************************)
C11_FetchFailureNoTrace ==
    news = "null" =>
        /\ attempted = <<>>
        /\ wrote = <<>>
        /\ file = fileAtStart

C11_Witness ==
    /\ scraper = "arc"
    /\ news = "null"
    /\ pc = "done"
    /\ file.exists
    /\ file.json.posted_urls # <<>>

(***************************************************************************)
(* C12.  A fetch failure is not fatal: an Arc Raiders run whose fetch of   *)
(* the news page gave no response ends without an uncaught error, on a     *)
(* cold start too.                                                         *)
(***************************************************************************)
C12_FetchFailureNotFatal ==
    (scraper = "arc" /\ news = "null") => pc # "crashed"

(***************************************************************************)
(* C13.  A page that was fetched but has no news section ends the run with *)
(* the error of getLatestNewsArticles: no webhook call is made and the     *)
(* state file is as the run found it.                                      *)
(***************************************************************************)
C13_ParseFailureAborts ==
    news = "nosection" =>
        /\ pc = "crashed"
        /\ error = "section"
        /\ attempted = <<>>
        /\ wrote = <<>>
        /\ file = fileAtStart

C13_Witness ==
    /\ scraper = "arc"
    /\ news = "nosection"
    /\ pc = "crashed"
    /\ file.exists
    /\ file.json.last_published = 2

(***************************************************************************)
(* C14.  The Arc Raiders postToDiscord ends after at most                  *)
(* DefaultRetries + 1 webhook calls.  Every call but the last was answered *)
(* 429 and is followed by a wait of the Retry-After seconds, or of 5       *)
(* seconds when the header is absent or not a number.  A last answer 2xx   *)
(* is success, any other non-2xx answer is a failure with no further call, *)
(* and a last answer 429 is a failure of the fourth call.                  *)
(***************************************************************************)
C14_PostTerminates ==
    (scraper = "arc" /\ postOut.done) =>
        LET log == postOut.log
            script == postIn.script
            calls == Count(log, "post")
        IN  /\ calls \in 1..(DefaultRetries + 1)
            /\ Len(log) = 2 * calls - 1
            /\ \A k \in 1..(calls - 1) :
                   /\ script[k].status = "429"
                   /\ log[2 * k - 1] = [ev |-> "post", n |-> k]
                   /\ log[2 * k].ev = "wait"
                   /\ log[2 * k].n =
                          (IF script[k].header.present
                              /\ script[k].header.numeric
                           THEN script[k].header.seconds
                           ELSE DefaultRetryAfter)
            /\ log[2 * calls - 1] = [ev |-> "post", n |-> calls]
            /\ script[calls].status = "ok" => postOut.result = "ok"
            /\ script[calls].status # "ok" => postOut.result # "ok"
            /\ script[calls].status = "429" => calls = DefaultRetries + 1

(***************************************************************************)
(* C15.  The Nightreign postToDiscord answers a 429 by waiting and posting *)
(* the same article again: a call whose first answer is 429 makes a second *)
(* webhook call after a wait.                                              *)
(***************************************************************************)
C15_NightreignRetries ==
    (scraper = "nightreign" /\ postOut.done
        /\ postIn.script[1].status = "429") =>
        /\ Count(postOut.log, "post") >= 2
        /\ Count(postOut.log, "wait") >= 1

\* the run ended at startup: nothing was loaded, fetched, posted or written
AbortedAtStartup ==
    /\ pc = "crashed"
    /\ reads = 0
    /\ news = "none"
    /\ attempted = <<>>
    /\ wrote = <<>>

(***************************************************************************)
(* C16.  A script run from its first line aborts at startup, before any    *)
(* fetch, webhook call or access to the state file, exactly when its       *)
(* webhook variable is unset: with the variable set the run reaches the    *)
(* async IIFE, with it unset the run ends at startup.                      *)
(***************************************************************************)
C16_AbortsIffWebhookUnset ==
    (entry = "script" /\ pc # "idle") => (AbortedAtStartup <=> ~env)

\* the state file the run found is missing, is not JSON, or has a missing
\* or invalid last_published
Malformed(f) ==
    \/ ~f.exists
    \/ "json" \notin DOMAIN f
    \/ "last_published" \notin DOMAIN f.json
    \/ f.json.last_published = NotADate

(***************************************************************************)
(* C17.  Arc Raiders loadState raises nothing and gives absent for a state *)
(* file that is missing, is not JSON, or has a missing or invalid          *)
(* last_published: the run is then a cold start, which posts nothing and   *)
(* saves the newest date of the list with no urls.  A record with a valid  *)
(* last_published and no posted_urls, or one that is not an array, loads   *)
(* as an existing state with that date and empty postedUrls.               *)
(***************************************************************************)
C17_LoadState ==
    reads = 1 =>
        /\ error \in {"none", "section", "RangeError"}
        /\ Malformed(fileAtStart) =>
               /\ ~state.present
               /\ newArticles = <<>>
               /\ attempted = <<>>
               /\ error # "section" =>
                      IF articles = <<>>
                      THEN pc = "crashed" /\ file = fileAtStart
                      ELSE /\ wrote = <<"cold">>
                           /\ file = saveState(NewestDate(articles), <<>>)
        /\ ~Malformed(fileAtStart) =>
               /\ state.present
               /\ state.lastPublished = fileAtStart.json.last_published
               /\ state.postedUrls =
                      (IF "posted_urls" \notin DOMAIN fileAtStart.json
                       THEN <<>>
                       ELSE IF fileAtStart.json.posted_urls = NotAnArray
                            THEN <<>>
                            ELSE fileAtStart.json.posted_urls)
               /\ wrote # <<"cold">>

C17_Witness ==
    /\ reads = 1
    /\ pc = "done"
    /\ fileAtStart = [exists |-> TRUE,
                      json |-> [last_published |-> 2,
                                posted_urls |-> NotAnArray]]
    /\ state = [present |-> TRUE, lastPublished |-> 2, postedUrls |-> <<>>]
    /\ UrlsOf(newArticles) = {"u2", "u3", "u4"}
    /\ file = saveState(DateOf(3), <<"u4">>)

(***************************************************************************)
(* C18.  In one run the state file is loaded once and written at most      *)
(* once: a run that returned from getUnpostedArticles loaded it exactly    *)
(* once, no run makes both the cold-start write and the end-of-run write,  *)
(* and a run that loaded an existing state and found nothing unposted      *)
(* writes nothing.                                                         *)
(***************************************************************************)
C18_ReadOnceWriteAtMostOnce ==
    /\ reads <= 1
    /\ Len(wrote) <= 1
    /\ Returned => reads = 1
    /\ (pc = "done" /\ state.present /\ newArticles = <<>>) =>
           (wrote = <<>> /\ file = fileAtStart)

C18_Witness ==
    /\ scraper = "arc"
    /\ pc = "done"
    /\ reads = 1
    /\ state.present
    /\ Len(articles) = 3
    /\ newArticles = <<>>
    /\ wrote = <<>>

C20_LastPublishedNeverDecreases ==
    [][file.exists =>
          /\ file'.exists
          /\ file'.json.last_published >= file.json.last_published]_vars

C20_Witness ==
    /\ scraper = "nightreign"
    /\ pc = "done"
    /\ state.present
    /\ state.lastPublished = 2
    /\ \E k \in DOMAIN articles : articles[k].published < 2
    /\ wrote = <<"end">>
    /\ file.json.last_published = 3

====
